---- MODULE Spec2Model ----
(***************************************************************************)
(* MRI-EnvLogger: the publishing pipeline of src/MRI-EnvLogger.py.         *)
(*                                                                         *)
(* One foreground context (the Tk main loop) runs the button handlers      *)
(* save_record, manual_generate_dashboard and copy_chart_js_to_dashboard   *)
(* and the _done callbacks queued with after(0, ...); background worker    *)
(* threads run deploy_to_surge, one subprocess call per step.  The record  *)
(* store is the SQLite table logs, the publish directory is DASH_DIR.      *)
(*                                                                         *)
(* Timestamps are the text "%Y-%m-%d %H:%M:%S"; the model keeps the two    *)
(* fixed-width fields that the text orders by, <<day, second of day>>,     *)
(* compared field by field as SQLite compares the text, and converted to   *)
(* and from a count of seconds as strptime and strftime do.                *)
(***************************************************************************)
EXTENDS Integers, Sequences, FiniteSets, TLC

VARIABLES
    store,      \* table logs, in rowid order
    files,      \* DASH_DIR: dashboard_latest.html, index.html, dashboard_<ts>.html
    snap,       \* locals last, records of the latest generate_dashboard_html call
    installed,  \* where surge and npx are installed: PATH hits and known-dir files
    fg,         \* position of the foreground context inside save_record
    dialogs,    \* open ProgressDialog windows (each holds the input grab)
    threads,    \* live worker threads started by save_record
    afterQ,     \* _done callbacks queued by after(0, _done), not yet run
    status,     \* self.status and the verdict box shown by the last _done
    delivered,  \* per save cycle: how many times its _done ran
    cycles,     \* number of worker threads started so far
    events,     \* what the current save_record call has done so far, in order
    config,     \* self.config_data: chart_offline
    appAsset    \* APP_DIR holds chart.umd.min.js

vars == <<store, files, snap, installed, fg, dialogs, threads, afterQ,
          status, delivered, cycles, events, config, appAsset>>

----------------------------------------------------------------------------
(* Bounds of the model.                                                    *)

MaxRows == 3        \* rows the store may hold
MaxSec == 1         \* seconds of a day the clock takes: 0..MaxSec
MaxFiles == 2       \* files named surge or npx that the known directories hold at start

(* Program constants.                                                      *)

WINDOW_DAYS == 30       \* timedelta(days=30)
SECS_PER_DAY == 86400   \* "%H:%M:%S" wraps at 24*60*60
SECS_PER_MIN == 60      \* "%H:%M" drops the seconds

Days == {0, WINDOW_DAYS}
Secs == 0..MaxSec
TimePoints == Days \X Secs

NoFile == [absent |-> TRUE]
NoRow == [none |-> TRUE]

----------------------------------------------------------------------------
(* Timestamps.                                                             *)

\* datetime.strptime(ts, "%Y-%m-%d %H:%M:%S"), as seconds since day 0
Strptime(ts) == ts[1] * SECS_PER_DAY + ts[2]

\* dt.strftime("%Y-%m-%d %H:%M:%S")
Strftime(t) == <<t \div SECS_PER_DAY, t % SECS_PER_DAY>>

\* SQLite's comparison of two timestamp texts: field by field, left to right
TsLeq(a, b) == a[1] < b[1] \/ (a[1] = b[1] /\ a[2] <= b[2])

\* "%Y%m%d_%H%M%S": second precision, one name per second
TsName(now) == now

\* "%d/%m/%y %H:%M": the generation stamp printed in the footer
GenStamp(now) == <<now[1], now[2] \div SECS_PER_MIN>>

\* normalize_to_iso(s, start_of_day): a full timestamp has 19 characters, so
\* only_date is false and the text is parsed and formatted back unchanged
NormalizeToIso(ts) == Strftime(Strptime(ts))

----------------------------------------------------------------------------
(* Record store.                                                           *)

\* what a REAL column of a row holds: a number (kept in tenths), or, in a
\* database file the program did not write, a text that is not a number
Real(n) == [real |-> n]
Text(x) == [text |-> x]
IsReal(x) == "real" \in DOMAIN x

NumFields == {"o2", "rh1", "temp1", "rh2", "temp2"}

\* insert_record: appends a row stamped with datetime.now()
InsertRecord(st, now, v) ==
    Append(st, [timestamp |-> now, o2 |-> Real(v.o2), rh1 |-> Real(v.rh1),
                temp1 |-> Real(v.temp1), rh2 |-> Real(v.rh2),
                temp2 |-> Real(v.temp2), elio_ok |-> v.elio_ok,
                aspirazione_ok |-> v.aspirazione_ok, operatore |-> v.operatore])

Rows(st) == {st[i] : i \in 1..Len(st)}

\* fetch_last_record: ORDER BY timestamp DESC LIMIT 1.  SQL leaves the order of
\* rows with equal timestamps open, so every row with the greatest timestamp
\* is a possible result; the empty set stands for None.
FetchLastRecord(st) ==
    {r \in Rows(st) : \A q \in Rows(st) : TsLeq(q.timestamp, r.timestamp)}

\* InRange with the lower bound exclusive
InRangeOpen(ts, start, end) ==
    ~TsLeq(ts, NormalizeToIso(start)) /\ TsLeq(ts, NormalizeToIso(end))

\* the WHERE clause of fetch_records(start, end), both bounds given
InRange(ts, start, end) ==
    TsLeq(NormalizeToIso(start), ts) /\ TsLeq(ts, NormalizeToIso(end))

\* ORDER BY timestamp ASC over the selected rowids: every ordering SQL may return
RECURSIVE SortedSeqs(_, _)
SortedSeqs(st, ids) ==
    IF ids = {} THEN {<<>>}
    ELSE LET mins == {i \in ids : \A j \in ids : TsLeq(st[i].timestamp, st[j].timestamp)}
         IN UNION {{<<st[i]>> \o s : s \in SortedSeqs(st, ids \ {i})} : i \in mins}

\* fetch_records(start, end): the possible result lists
FetchRecords(st, start, end) ==
    SortedSeqs(st, {i \in 1..Len(st) : InRange(st[i].timestamp, start, end)})

\* generate_dashboard_html, lines 387-388: start_dt = last_dt - timedelta(days=30)
WindowStart(last) == Strftime(Strptime(last.timestamp) - WINDOW_DAYS * SECS_PER_DAY)

\* generate_dashboard_html, line 389: the records of the trailing window
WindowRecords(st, last) ==
    FetchRecords(st, WindowStart(last), Strftime(Strptime(last.timestamp)))

\* generate_dashboard_html, line 385: RuntimeError on an empty store
NoData == [error |-> "Nessun record presente nel database."]

\* Aggregate where an empty store yields an empty snapshot instead of an error
AggregateEmptySnapshot(st) ==
    IF FetchLastRecord(st) = {}
    THEN {[last |-> NoRow, records |-> <<>>]}
    ELSE UNION {{[last |-> l, records |-> r] : r \in WindowRecords(st, l)} :
                    l \in FetchLastRecord(st)}

\* generate_dashboard_html, lines 383-389: the snapshots the queries can
\* return, or the error raised when there is no last record
Aggregate(st) ==
    IF FetchLastRecord(st) = {}
    THEN {NoData}
    ELSE UNION {{[last |-> l, records |-> r] : r \in WindowRecords(st, l)} :
                    l \in FetchLastRecord(st)}

----------------------------------------------------------------------------
(* Tool resolver.                                                          *)

ToolNames == {"surge", "npx"}

\* _possible_node_dirs(): the known install directories that exist, in order
KnownDirs == <<"appdata_npm", "programfiles_nodejs">>

\* _which_executable, line 598
Suffixes == <<"", ".cmd", ".exe", ".bat">>

NoTool == [found |-> FALSE]

\* the places of a tool that the installer actions of the model use
InstallSpots == {[via |-> "path"], [via |-> "dir", dir |-> KnownDirs[1], suf |-> 2]}

MinOf(S) == CHOOSE x \in S : \A y \in S : x <= y

\* WhichExecutable answering from a search made when the program started,
\* with nothing installed
WhichExecutableAtStart(names, dirs, inst) == NoTool

\* WhichExecutable where the known directories are searched before PATH
WhichExecutableDirsFirst(names, dirs, inst) ==
    LET hits == {i \in 1..Len(names) : names[i] \in inst.path}
        cands == {c \in (1..Len(names)) \X (1..Len(dirs)) \X (1..Len(Suffixes)) :
                    <<names[c[1]], dirs[c[2]], c[3]>> \in inst.files}
        Before(a, b) ==
            \/ a[1] < b[1]
            \/ a[1] = b[1] /\ a[2] < b[2]
            \/ a[1] = b[1] /\ a[2] = b[2] /\ a[3] <= b[3]
        first == CHOOSE c \in cands : \A d \in cands : Before(c, d)
    IN  IF cands # {}
        THEN [found |-> TRUE, via |-> "dir", name |-> names[first[1]],
              dir |-> dirs[first[2]], suf |-> first[3]]
        ELSE IF hits # {}
        THEN [found |-> TRUE, via |-> "path", name |-> names[MinOf(hits)]]
        ELSE NoTool

\* WhichExecutable where the file test looks for the file name in any directory
WhichExecutableAnyDir(names, dirs, inst) ==
    LET hits == {i \in 1..Len(names) : names[i] \in inst.path}
        cands == {c \in (1..Len(names)) \X (1..Len(dirs)) \X (1..Len(Suffixes)) :
                    \E x \in inst.files : x[1] = names[c[1]] /\ x[3] = c[3]}
        Before(a, b) ==
            \/ a[1] < b[1]
            \/ a[1] = b[1] /\ a[2] < b[2]
            \/ a[1] = b[1] /\ a[2] = b[2] /\ a[3] <= b[3]
        first == CHOOSE c \in cands : \A d \in cands : Before(c, d)
    IN  IF hits # {}
        THEN [found |-> TRUE, via |-> "path", name |-> names[MinOf(hits)]]
        ELSE IF cands # {}
        THEN [found |-> TRUE, via |-> "dir", name |-> names[first[1]],
              dir |-> dirs[first[2]], suf |-> first[3]]
        ELSE NoTool

\* _which_executable(names), with dirs the list _possible_node_dirs() returns:
\* PATH first, name by name; then name, known directory and suffix, in that
\* nesting; None when nothing matches.  The result is the path found: the
\* name on PATH, or directory, name and suffix joined.
WhichExecutable(names, dirs, inst) ==
    LET hits == {i \in 1..Len(names) : names[i] \in inst.path}
        cands == {c \in (1..Len(names)) \X (1..Len(dirs)) \X (1..Len(Suffixes)) :
                    <<names[c[1]], dirs[c[2]], c[3]>> \in inst.files}
        Before(a, b) ==
            \/ a[1] < b[1]
            \/ a[1] = b[1] /\ a[2] < b[2]
            \/ a[1] = b[1] /\ a[2] = b[2] /\ a[3] <= b[3]
        first == CHOOSE c \in cands : \A d \in cands : Before(c, d)
    IN  IF hits # {}
        THEN [found |-> TRUE, via |-> "path", name |-> names[MinOf(hits)]]
        ELSE IF cands # {}
        THEN [found |-> TRUE, via |-> "dir", name |-> names[first[1]],
              dir |-> dirs[first[2]], suf |-> first[3]]
        ELSE NoTool

----------------------------------------------------------------------------
(* Subprocesses.                                                           *)

\* exit statuses of a child: zero, and one value standing for every other
ExitCodes == {0, 1}

\* what a child's combined output contains, as far as the code looks at it:
\*   "plain"     none of the words searched for (also an empty output)
\*   "auth"      "email", "you are" or "logged", and no negative phrase
\*   "notlogged" "not logged" (which contains "logged")
\*   "notoken"   "no token"
Texts == {"plain", "auth", "notlogged", "notoken"}

\* how a call of _run_subprocess can end
Outcomes ==
    [kind : {"exit"}, rc : ExitCodes, text : Texts] \cup {[kind |-> "timeout"]}

TimeoutOut == [fixed |-> "Timeout esecuzione comando."]

\* RunSubprocess where a child killed on its timeout counts as exited with 0
RunSubprocessTimeoutZero(call, oc) ==
    IF oc.kind = "timeout"
    THEN [rc |-> 0, out |-> TimeoutOut, text |-> "plain"]
    ELSE [rc |-> oc.rc, out |-> [of |-> call], text |-> oc.text]

\* _run_subprocess: (returncode, output) of the child, or (1, fixed text)
\* after the child was killed on TimeoutExpired
RunSubprocess(call, oc) ==
    IF oc.kind = "timeout"
    THEN [rc |-> 1, out |-> TimeoutOut, text |-> "plain"]
    ELSE [rc |-> oc.rc, out |-> [of |-> call], text |-> oc.text]

\* line 634: "email" in out.lower() or "you are" in ... or "logged" in ...
HasIdentity(r) == r.text \in {"auth", "notlogged"}

\* line 675: "not logged" in out.lower() or "no token" in out.lower()
HasNoSession(r) == r.text \in {"notlogged", "notoken"}

\* SurgeAuthenticated where the exit status of whoami is not looked at
SurgeAuthenticatedAnyExit(r) == HasIdentity(r)

\* _surge_login_if_needed, line 634: the session counts as authenticated
SurgeAuthenticated(r) == r.rc = 0 /\ HasIdentity(r)

\* _surge_login_if_needed, line 641: ok = (rc2 == 0 or rc3 == 0)
LoginOk(rc2, rc3) == rc2 = 0 \/ rc3 = 0

\* AfterSurgeLogin where a dispatch that could not log in checks the status again
AfterSurgeLoginAgain(ok_login) == IF ok_login THEN "surge_deploy" ELSE "surge_whoami"

\* AfterSurgeLogin where a dispatch that could not log in gives up the direct tool
AfterSurgeLoginStrict(ok_login) == IF ok_login THEN "surge_deploy" ELSE "resolve_npx"

\* deploy_to_surge, lines 655-659: ok_login is read and the deploy runs anyway
AfterSurgeLogin(ok_login) == "surge_deploy"

\* deploy_to_surge, line 675: the runner path logs in
NpxNeedsLogin(r) == r.rc # 0 \/ HasNoSession(r)

----------------------------------------------------------------------------
(* Form input and validation.                                              *)

\* texts typed into a numeric field
FieldTexts == {"", "abc", "20.9", "21,5"}

\* parse_float: strip, "," -> ".", float(); the value in tenths, or an error
ParseFloat(s) ==
    CASE s = "" -> [err |-> "vuoto"]
      [] s = "20.9" -> [val |-> 209]
      [] s = "21,5" -> [val |-> 215]
      [] OTHER -> [err |-> "numero"]

IsError(p) == "err" \in DOMAIN p

\* the form with one text in the five numeric fields, and an operator
Typed(num, op) ==
    [o2 |-> num, rh1 |-> num, temp1 |-> num, rh2 |-> num, temp2 |-> num,
     operatore |-> op]

\* the forms the model submits: one text for the five numeric fields, an operator
FormInputs == {Typed(num, op) : num \in FieldTexts, op \in {"", "MRossi"}}

\* the numeric fields in the order save_record parses them
ParseOrder == <<"o2", "rh1", "temp1", "rh2", "temp2">>

\* str.strip() of the operator field: " " stands for a text of spaces only
Strip(op) == IF op = " " THEN "" ELSE op

\* ValidateForm where the operator field is not looked at
ValidateFormAnyOperator(f) ==
    LET p == [n \in DOMAIN f \ {"operatore"} |-> ParseFloat(f[n])]
        bad == {k \in 1..Len(ParseOrder) : IsError(p[ParseOrder[k]])}
    IN  IF bad # {} THEN p[ParseOrder[MinOf(bad)]]
        ELSE [o2 |-> p.o2.val, rh1 |-> p.rh1.val, temp1 |-> p.temp1.val,
              rh2 |-> p.rh2.val, temp2 |-> p.temp2.val, elio_ok |-> "NO",
              aspirazione_ok |-> "NO", operatore |-> Strip(f.operatore)]

\* save_record, lines 1273-1284: the parsed values, or the first ValueError
\* raised: the five numeric fields in order, then the stripped operator
ValidateForm(f) ==
    LET p == [n \in DOMAIN f \ {"operatore"} |-> ParseFloat(f[n])]
        bad == {k \in 1..Len(ParseOrder) : IsError(p[ParseOrder[k]])}
    IN  IF bad # {} THEN p[ParseOrder[MinOf(bad)]]
        ELSE IF Strip(f.operatore) = "" THEN [err |-> "operatore"]
        ELSE [o2 |-> p.o2.val, rh1 |-> p.rh1.val, temp1 |-> p.temp1.val,
              rh2 |-> p.rh2.val, temp2 |-> p.temp2.val, elio_ok |-> "NO",
              aspirazione_ok |-> "NO", operatore |-> Strip(f.operatore)]

----------------------------------------------------------------------------
(* Publish directory.                                                      *)

\* it_ts_display: "%d/%m/%y %H:%M" of a canonical timestamp
ItTsDisplay(ts) == <<ts[1], ts[2] \div SECS_PER_MIN>>

\* float(x), lines 396-400: the number, or the exception raised
Float(x) == IF IsReal(x) THEN [val |-> x.real] ELSE [err |-> "float"]

\* format_num: two decimals (the value in hundredths), or str(x)
FormatNum(x) ==
    IF IsError(Float(x)) THEN [raw |-> x.text] ELSE [fixed2 |-> Float(x).val * 10]

\* generate_dashboard_html, lines 393-400: the loop that builds the chart
\* series raises on the first value float() does not take
RenderRaises(records) ==
    \E k \in 1..Len(records), f \in NumFields : IsError(Float(records[k][f]))

\* a reading as the header block and a table row show it
TableRow(r) ==
    [timestamp |-> ItTsDisplay(r.timestamp), o2 |-> FormatNum(r.o2),
     rh1 |-> FormatNum(r.rh1), temp1 |-> FormatNum(r.temp1),
     rh2 |-> FormatNum(r.rh2), temp2 |-> FormatNum(r.temp2),
     elio_ok |-> r.elio_ok, aspirazione_ok |-> r.aspirazione_ok,
     operatore |-> r.operatore]

LocalTag == "chart.umd.min.js"
RemoteTag == "https://cdn.jsdelivr.net/npm/chart.js"

\* ChartTag where the local asset is preferred in remote mode too
ChartTagProbing(offline, inOut, inApp, fault) ==
    IF inOut THEN LocalTag
    ELSE IF offline /\ inApp
    THEN IF fault = "asset" THEN RemoteTag ELSE LocalTag
    ELSE RemoteTag

\* ChartTag where a failed copy of the asset still yields the local reference
ChartTagCopyUnchecked(offline, inOut, inApp, fault) ==
    IF offline /\ inOut THEN LocalTag
    ELSE IF offline /\ inApp THEN LocalTag
    ELSE RemoteTag

\* generate_dashboard_html, lines 417-429: the script tag of the chart library
ChartTag(offline, inOut, inApp, fault) ==
    IF offline /\ inOut THEN LocalTag
    ELSE IF offline /\ inApp
    THEN IF fault = "asset" THEN RemoteTag ELSE LocalTag
    ELSE RemoteTag

\* lines 422-424: chart.umd.min.js is in the publish directory afterwards
ChartInOutDir(offline, inOut, inApp, fault) ==
    inOut \/ (offline /\ inApp /\ fault # "asset")

\* the document generate_dashboard_html renders, by what the template is
\* filled with: the last reading, the records of the window, the script tag
\* of the chart library and the generation stamp of the footer
Render(last, records, now, tag) ==
    [last |-> last, records |-> records, gen |-> GenStamp(now), chart |-> tag]

\* the header block of a document: the last reading as it is displayed
Header(doc) == TableRow(doc.last)

\* the history table of a document: one displayed row per record
Table(doc) == [k \in 1..Len(doc.records) |-> TableRow(doc.records[k])]

ArchiveNames(f) == DOMAIN f.archive

\* where a commit can fail (an OSError of open, write or copy): writing
\* dashboard_latest.html, writing the archival copy, copy2 to index.html
\* alone ("copy"), or copy2 and the rewrite that follows it ("index"); or
\* copying the chart library from APP_DIR ("asset"), which is not fatal
FsFaults == {"none", "asset", "latest", "ts", "copy", "index"}

\* WriteDashboards where the archival copy carries its own name in the footer
WriteDashboardsStamped(f, doc, name, fault) ==
    IF fault = "latest" THEN f
    ELSE IF fault = "ts" THEN [f EXCEPT !.latest = doc]
    ELSE [f EXCEPT !.latest = doc,
                   !.archive = [n \in DOMAIN f.archive \cup {name} |->
                                   IF n = name THEN [doc EXCEPT !.gen = name]
                                   ELSE f.archive[n]]]

\* generate_dashboard_html, lines 552-558: the two writes, in order; a write
\* that raises leaves its file and the later ones as they were
WriteDashboards(f, doc, name, fault) ==
    IF fault = "latest" THEN f
    ELSE IF fault = "ts" THEN [f EXCEPT !.latest = doc]
    ELSE [f EXCEPT !.latest = doc,
                   !.archive = [n \in DOMAIN f.archive \cup {name} |->
                                   IF n = name THEN doc ELSE f.archive[n]]]

\* CopyIndex where index.html is left as it is
CopyIndexSkipped(f, fault) == f

\* _generate_dashboard_to_fixed_dir, lines 1329-1336: index.html := latest,
\* by copy2 or, when copy2 raised, by reading latest and writing index.html
CopyIndex(f, fault) ==
    IF fault = "index" THEN f ELSE [f EXCEPT !.index = f.latest]

\* _generate_dashboard_to_fixed_dir after a successful aggregation
CommitFiles(f, doc, name, fault) ==
    IF fault \in {"latest", "ts"}
    THEN WriteDashboards(f, doc, name, fault)
    ELSE CopyIndex(WriteDashboards(f, doc, name, fault), fault)

\* the steps of a commit that completed, as save_record's trace records them
CommitEvents(fault) ==
    CASE fault = "latest" -> <<>>
      [] fault = "ts" -> <<"latest">>
      [] fault = "index" -> <<"latest", "ts">>
      [] OTHER -> <<"latest", "ts", "index">>

\* generate_dashboard_html raised before it wrote anything: no reading in
\* the store (line 385) or a value that float() does not take (lines 396-400)
GenerateRaises(s) == s = NoData \/ RenderRaises(s.records)

\* CommitFailed where save_record goes on after an exception of the commit
CommitFailedIgnored(fault) == FALSE

\* _generate_dashboard_to_fixed_dir raised: save_record, lines 1320-1321,
\* and manual_generate_dashboard, lines 1445-1446, catch it and show it
CommitFailed(fault) == fault \in {"latest", "ts", "index"}

----------------------------------------------------------------------------
(* Initial state: init_db() on a fresh install, empty DASH_DIR, App().     *)

Cycles == 1..MaxRows

Init ==
    /\ store = <<>>
    /\ files = [latest |-> NoFile, index |-> NoFile, archive |-> <<>>, chart |-> FALSE]
    /\ snap = [last |-> NoRow, records |-> <<>>, of |-> <<>>, mode |-> FALSE, tag |-> ""]
    /\ installed = [path |-> {}, files |-> {}]
    /\ fg = "idle"
    /\ dialogs = {}
    /\ threads = <<>>
    /\ afterQ = <<>>
    /\ status = [bar |-> "", box |-> ""]
    /\ delivered = [c \in Cycles |-> 0]
    /\ cycles = 0
    /\ events = <<>>
    /\ config = [chart_offline |-> FALSE]
    /\ appAsset = FALSE

----------------------------------------------------------------------------
(* Environment: tools get installed and removed while the program runs.    *)

SpotFiles(n, spot) ==
    IF spot.via = "path" THEN {} ELSE {<<n, spot.dir, spot.suf>>}

InstallTool(n, spot) ==
    /\ n \notin installed.path
    /\ \A x \in installed.files : x[1] # n
    /\ installed' = [path |-> IF spot.via = "path" THEN installed.path \cup {n}
                               ELSE installed.path,
                     files |-> installed.files \cup SpotFiles(n, spot)]
    /\ UNCHANGED <<store, files, snap, fg, dialogs, threads, afterQ, status,
                   delivered, cycles, events, config,
                   appAsset>>

RemoveTool(n) ==
    /\ n \in installed.path \/ \E x \in installed.files : x[1] = n
    /\ installed' = [path |-> installed.path \ {n},
                     files |-> {x \in installed.files : x[1] # n}]
    /\ UNCHANGED <<store, files, snap, fg, dialogs, threads, afterQ, status,
                   delivered, cycles, events, config,
                   appAsset>>

\* chart.umd.min.js is put next to the program, or taken away
PlaceAppAsset ==
    /\ appAsset' = ~appAsset
    /\ UNCHANGED <<store, files, snap, installed, fg, dialogs, threads, afterQ,
                   status, delivered, cycles, events, config>>

----------------------------------------------------------------------------
(* Foreground context.                                                     *)

\* ButtonsEnabled without the grab: the main window stays usable under the dialog
ButtonsEnabledNoGrab == fg = "idle"

\* A button of the main window can be pressed: no handler is running and no
\* ProgressDialog holds the grab (grab_set in ProgressDialog.__init__).
ButtonsEnabled == fg = "idle" /\ dialogs = {}

\* GrabSet where the dialog takes no grab
GrabNotSet(ds, c) == ds

\* ProgressDialog.__init__, line 1053: grab_set() of the new dialog
GrabSet(ds, c) == ds \cup {c}

\* AfterInsert where the upload is started without generating the dashboard
AfterInsertNoCommit == "start"

\* save_record, lines 1286-1293: after insert_record the handler commits
AfterInsert == "commit"

\* save_record, lines 1273-1290: validation, insert_record, "Salvato" box
SaveRecord(form, now) ==
    /\ ButtonsEnabled
    /\ Len(store) < MaxRows
    /\ LET v == ValidateForm(form)
       IN  IF IsError(v)
           THEN /\ status' = [status EXCEPT !.box = "Errore di validazione"]
                /\ events' = <<>>
                /\ UNCHANGED <<store, fg>>
           ELSE /\ store' = InsertRecord(store, now, v)
                /\ status' = [bar |-> "Registrazione salvata", box |-> "Salvato"]
                /\ events' = <<"insert">>
                /\ fg' = AfterInsert
    /\ UNCHANGED <<files, snap, installed, dialogs, threads, afterQ, delivered, cycles, config,
                   appAsset>>

\* generate_dashboard_html + _generate_dashboard_to_fixed_dir on a non-empty
\* store: aggregate, render, write the two dashboards, copy index.html
GenerateAndCommit(s, now, fault) ==
    LET offline == config.chart_offline
        tag == ChartTag(offline, files.chart, appAsset, fault)
        f1 == [files EXCEPT !.chart = ChartInOutDir(offline, @, appAsset, fault)]
    IN  /\ snap' = [last |-> s.last, records |-> s.records, of |-> store,
                    mode |-> offline, tag |-> tag]
        /\ files' = CommitFiles(f1, Render(s.last, s.records, now, tag),
                                TsName(now), fault)

\* save_record, line 1293: the commit of the save cycle
SaveCommit(now, fault) ==
    /\ fg = "commit"
    /\ \E s \in Aggregate(store) :
          IF GenerateRaises(s)
          THEN /\ fg' = "idle"
               /\ status' = [status EXCEPT !.box = "Errore"]
               /\ UNCHANGED <<files, snap, events>>
          ELSE /\ GenerateAndCommit(s, now, fault)
               /\ events' = events \o CommitEvents(fault)
               /\ IF CommitFailed(fault)
                  THEN fg' = "idle" /\ status' = [status EXCEPT !.box = "Errore"]
                  ELSE fg' = "start" /\ UNCHANGED status
    /\ UNCHANGED <<store, installed, dialogs, threads, afterQ, delivered, cycles, config,
                   appAsset>>

\* no status check has been made yet, or its result is no longer held
NoResponse == [rc |-> -1, text |-> ""]

\* (rc, out) of a status check as the code looks at it
Response(r) == [rc |-> r.rc, text |-> r.text]

\* the worker thread as threading.Thread(target=_worker).start() creates it.
\* Of deploy_to_surge's locals it keeps those read again after the step that
\* sets them: the resolved command, the result of the strategy's first
\* status check (who) until its deploy has run, login's rc2, ok_login and the
\* transcript last.  calls and resolved are the history of the dispatch: the
\* subprocesses it spawned and the tool lookups it made, in order.
NewThread(c) ==
    [cycle |-> c, pc |-> "resolve_surge", cmd |-> NoTool, who |-> NoResponse,
     rc2 |-> 0, ok_login |-> FALSE, last |-> <<>>, calls |-> <<>>, resolved |-> <<>>,
     result |-> [ok |-> FALSE, log |-> <<>>]]

\* save_record, lines 1297-1316: ProgressDialog, then the worker thread
SaveStart ==
    /\ fg = "start"
    /\ cycles < MaxRows
    /\ cycles' = cycles + 1
    /\ dialogs' = GrabSet(dialogs, cycles + 1)
    /\ threads' = Append(threads, NewThread(cycles + 1))
    /\ status' = [status EXCEPT !.bar = "Caricamento su surge.sh in corso"]
    /\ events' = Append(events, "thread")
    /\ fg' = "idle"
    /\ UNCHANGED <<store, files, snap, installed, afterQ, delivered, config,
                   appAsset>>

\* ManualGenerate where a regenerated dashboard is deployed as a saved one is
ManualGenerateAndDeploy(now, fault) ==
    /\ ButtonsEnabled
    /\ cycles < MaxRows
    /\ \E s \in Aggregate(store) :
          IF GenerateRaises(s)
          THEN /\ status' = [status EXCEPT !.box = "Impossibile generare la dashboard"]
               /\ UNCHANGED <<files, snap, dialogs, threads, cycles>>
          ELSE /\ GenerateAndCommit(s, now, fault)
               /\ IF CommitFailed(fault)
                  THEN /\ status' = [status EXCEPT !.box = "Impossibile generare la dashboard"]
                       /\ UNCHANGED <<dialogs, threads, cycles>>
                  ELSE /\ status' = [bar |-> "Dashboard aggiornata", box |-> "Dashboard"]
                       /\ cycles' = cycles + 1
                       /\ dialogs' = GrabSet(dialogs, cycles + 1)
                       /\ threads' = Append(threads, NewThread(cycles + 1))
    /\ UNCHANGED <<store, installed, fg, afterQ, delivered, events, config, appAsset>>

\* manual_generate_dashboard
ManualGenerate(now, fault) ==
    /\ ButtonsEnabled
    /\ \E s \in Aggregate(store) :
          IF GenerateRaises(s)
          THEN /\ status' = [status EXCEPT !.box = "Impossibile generare la dashboard"]
               /\ UNCHANGED <<files, snap>>
          ELSE /\ GenerateAndCommit(s, now, fault)
               /\ IF CommitFailed(fault)
                  THEN status' = [status EXCEPT !.box = "Impossibile generare la dashboard"]
                  ELSE status' = [bar |-> "Dashboard aggiornata", box |-> "Dashboard"]
    /\ UNCHANGED <<store, installed, fg, dialogs, threads, afterQ, delivered, cycles, events, config,
                   appAsset>>

\* copy_chart_js_to_dashboard: the chosen file is copied into DASH_DIR
CopyChartJs ==
    /\ ButtonsEnabled
    /\ files' = [files EXCEPT !.chart = TRUE]
    /\ status' = [status EXCEPT !.box = "Chart.js"]
    /\ UNCHANGED <<store, snap, installed, fg, dialogs, threads, afterQ, delivered,
                   cycles, events, config,
                   appAsset>>

\* _toggle_offline: the checkbox "Usa Chart.js offline"
ToggleOffline ==
    /\ ButtonsEnabled
    /\ config' = [config EXCEPT !.chart_offline = ~@]
    /\ status' = [status EXCEPT !.bar = "Preferenza Chart.js offline aggiornata"]
    /\ UNCHANGED <<store, files, snap, installed, fg, dialogs, threads, afterQ,
                   delivered, cycles, events, appAsset>>

\* RunDone where a failed result starts the dispatch of its cycle again
RunDoneRetry ==
    /\ fg = "idle"
    /\ afterQ # <<>>
    /\ LET d == Head(afterQ)
       IN  /\ dialogs' = dialogs \ {d.cycle}
           /\ status' = IF d.ok
                        THEN [bar |-> "Dashboard pubblicata su surge.sh", box |-> "ok"]
                        ELSE [bar |-> "Errore pubblicazione surge.sh", box |-> "warning"]
           /\ delivered' = [delivered EXCEPT ![d.cycle] = @ + 1]
           /\ threads' = IF d.ok THEN threads ELSE Append(threads, NewThread(d.cycle))
    /\ afterQ' = Tail(afterQ)
    /\ UNCHANGED <<store, files, snap, installed, fg, cycles, events, config,
                   appAsset>>

\* _done, lines 1301-1314, run by the main loop for a queued after(0, _done):
\* closes the dialog of its cycle and shows the verdict
RunDone ==
    /\ fg = "idle"
    /\ afterQ # <<>>
    /\ LET d == Head(afterQ)
       IN  /\ dialogs' = dialogs \ {d.cycle}
           /\ status' = IF d.ok
                        THEN [bar |-> "Dashboard pubblicata su surge.sh", box |-> "ok"]
                        ELSE [bar |-> "Errore pubblicazione surge.sh", box |-> "warning"]
           /\ delivered' = [delivered EXCEPT ![d.cycle] = @ + 1]
    /\ afterQ' = Tail(afterQ)
    /\ UNCHANGED <<store, files, snap, installed, fg, threads, cycles, events, config,
                   appAsset>>

----------------------------------------------------------------------------
(* Worker thread: _worker runs deploy_to_surge(DASH_DIR), then after(0, _done). *)

\* one subprocess of a dispatch as the history of calls records it: which
\* strategy ran which subcommand, and for a deploy its exit status
Call(strat, sub, r) ==
    [strat |-> strat, sub |-> sub, rc |-> IF sub = "deploy" THEN r.rc ELSE -1]

\* transcript segments
SurgeNotFound == [tag |-> "[surge]", text |-> "non trovato; provo npx"]
NpxNotFound == [tag |-> "[npx]", text |-> "non trovato"]
Attempt(tag, rc, out) == [tag |-> tag, rc |-> rc, out |-> out]
Raw(out) == [raw |-> out]

\* deploy_to_surge, lines 660-661 and 679-680: what a successful deploy returns
SuccessLog(last, out) == <<Raw(out)>>

\* DirectSucceeded where the result of the direct deploy is not looked at
DirectNeverEnough(rc) == FALSE

\* deploy_to_surge, line 660: the direct attempt ends the dispatch
DirectSucceeded(rc) == rc = 0

\* RunnerSucceeded where any exit status of the runner's deploy counts
RunnerAlwaysSucceeded(rc2) == TRUE

\* deploy_to_surge, line 679: the runner's deploy succeeded
RunnerSucceeded(rc2) == rc2 = 0

\* NpxMissingLog where the record of the direct strategy is dropped
NpxMissingLogAlone(last) == <<NpxNotFound>>

\* deploy_to_surge, line 670: the transcript returned when npx is missing
NpxMissingLog(last) == Append(last, NpxNotFound)

\* one tool lookup of a dispatch as the history records it
Lookup(name, cmd) == [name |-> name, found |-> cmd.found]

Step(i, t) == threads' = [threads EXCEPT ![i] = t]

WorkerFrame == UNCHANGED <<store, files, snap, installed, fg, dialogs, afterQ,
                           status, delivered, cycles, events, config,
                   appAsset>>

\* line 653: surge_cmd = _which_executable(["surge"])
ResolveSurge(i) ==
    /\ threads[i].pc = "resolve_surge"
    /\ LET t == threads[i]
           cmd == WhichExecutable(<<"surge">>, KnownDirs, installed)
           u == [t EXCEPT !.cmd = cmd, !.resolved = Append(@, Lookup("surge", cmd))]
       IN  IF cmd.found
           THEN Step(i, [u EXCEPT !.pc = "surge_whoami"])
           ELSE Step(i, [u EXCEPT !.last = <<SurgeNotFound>>, !.pc = "resolve_npx"])
    /\ WorkerFrame

\* _surge_login_if_needed, lines 633-635: surge whoami
SurgeWhoami(i, oc) ==
    /\ threads[i].pc = "surge_whoami"
    /\ LET t == threads[i]
           r == RunSubprocess(<<"surge", "whoami", Len(t.calls) + 1>>, oc)
           u == [t EXCEPT !.calls = Append(@, Call("surge", "whoami", r)),
                          !.who = Response(r)]
       IN  IF SurgeAuthenticated(r)
           THEN Step(i, [u EXCEPT !.ok_login = TRUE, !.pc = AfterSurgeLogin(TRUE)])
           ELSE Step(i, [u EXCEPT !.pc = "surge_login"])
    /\ WorkerFrame

\* _surge_login_if_needed, lines 637-638: surge login, credentials on stdin
SurgeLogin(i, oc) ==
    /\ threads[i].pc = "surge_login"
    /\ LET t == threads[i]
           r == RunSubprocess(<<"surge", "login", Len(t.calls) + 1>>, oc)
       IN  Step(i, [t EXCEPT !.rc2 = r.rc,
                             !.calls = Append(@, Call("surge", "login", r)),
                             !.pc = "surge_whoami2"])
    /\ WorkerFrame

\* _surge_login_if_needed, lines 640-642: whoami again; the function returns
\* ok and the three outputs joined; its caller keeps ok_login and never reads
\* the joined text (lines 655-658); the frame's rc2 ends here
SurgeWhoami2(i, oc) ==
    /\ threads[i].pc = "surge_whoami2"
    /\ LET t == threads[i]
           r == RunSubprocess(<<"surge", "whoami", Len(t.calls) + 1>>, oc)
       IN  Step(i, [t EXCEPT !.rc2 = 0, !.ok_login = LoginOk(t.rc2, r.rc),
                             !.calls = Append(@, Call("surge", "whoami", r)),
                             !.pc = AfterSurgeLogin(LoginOk(t.rc2, r.rc))])
    /\ WorkerFrame

\* lines 659-663: surge <folder> <domain> --yes
SurgeDeploy(i, oc) ==
    /\ threads[i].pc = "surge_deploy"
    /\ LET t == threads[i]
           r == RunSubprocess(<<"surge", "deploy", Len(t.calls) + 1>>, oc)
           u == [t EXCEPT !.calls = Append(@, Call("surge", "deploy", r)),
                          !.who = NoResponse]
       IN  IF DirectSucceeded(r.rc)
           THEN Step(i, [u EXCEPT !.result = [ok |-> TRUE, log |-> SuccessLog(t.last, r.out)],
                                  !.pc = "return"])
           ELSE Step(i, [u EXCEPT !.last = <<Attempt("[surge]", r.rc, r.out)>>,
                                  !.pc = "resolve_npx"])
    /\ WorkerFrame

\* lines 668-670: npx_cmd = _which_executable(["npx"])
ResolveNpx(i) ==
    /\ threads[i].pc = "resolve_npx"
    /\ LET t == threads[i]
           cmd == WhichExecutable(<<"npx">>, KnownDirs, installed)
           u == [t EXCEPT !.cmd = cmd, !.resolved = Append(@, Lookup("npx", cmd))]
       IN  IF cmd.found
           THEN Step(i, [u EXCEPT !.pc = "npx_whoami"])
           ELSE Step(i, [u EXCEPT !.result = [ok |-> FALSE, log |-> NpxMissingLog(t.last)],
                                  !.pc = "return"])
    /\ WorkerFrame

\* lines 674-675: npx surge whoami
NpxWhoami(i, oc) ==
    /\ threads[i].pc = "npx_whoami"
    /\ LET t == threads[i]
           r == RunSubprocess(<<"npx", "whoami", Len(t.calls) + 1>>, oc)
           u == [t EXCEPT !.calls = Append(@, Call("npx", "whoami", r)),
                          !.who = Response(r)]
       IN  IF NpxNeedsLogin(r)
           THEN Step(i, [u EXCEPT !.pc = "npx_login"])
           ELSE Step(i, [u EXCEPT !.pc = "npx_deploy"])
    /\ WorkerFrame

\* line 676: npx surge login; its result is dropped
NpxLogin(i, oc) ==
    /\ threads[i].pc = "npx_login"
    /\ LET t == threads[i]
           r == RunSubprocess(<<"npx", "login", Len(t.calls) + 1>>, oc)
       IN  Step(i, [t EXCEPT !.calls = Append(@, Call("npx", "login", r)),
                             !.pc = "npx_deploy"])
    /\ WorkerFrame

\* lines 678-681: npx surge <folder> <domain> --yes
NpxDeploy(i, oc) ==
    /\ threads[i].pc = "npx_deploy"
    /\ LET t == threads[i]
           r == RunSubprocess(<<"npx", "deploy", Len(t.calls) + 1>>, oc)
           u == [t EXCEPT !.calls = Append(@, Call("npx", "deploy", r)),
                          !.who = NoResponse, !.pc = "return"]
       IN  IF RunnerSucceeded(r.rc)
           THEN Step(i, [u EXCEPT !.result = [ok |-> TRUE, log |-> SuccessLog(t.last, r.out)]])
           ELSE Step(i, [u EXCEPT !.result =
                            [ok |-> FALSE,
                             log |-> Append(t.last, Attempt("[npx surge]", r.rc, r.out))]])
    /\ WorkerFrame

\* QueueDone where the thread ends without queuing its callback
QueueDoneLost(i) ==
    /\ threads[i].pc = "return"
    /\ threads' = [j \in 1..(Len(threads) - 1) |->
                      IF j < i THEN threads[j] ELSE threads[j + 1]]
    /\ UNCHANGED <<store, files, snap, installed, fg, dialogs, afterQ, status,
                   delivered, cycles, events, config,
                   appAsset>>

RemoveAt(q, i) == [j \in 1..(Len(q) - 1) |-> IF j < i THEN q[j] ELSE q[j + 1]]

\* _worker, line 1315: self.after(0, _done); the thread ends
QueueDone(i) ==
    /\ threads[i].pc = "return"
    /\ afterQ' = Append(afterQ, [cycle |-> threads[i].cycle,
                                 ok |-> threads[i].result.ok,
                                 log |-> threads[i].result.log])
    /\ threads' = RemoveAt(threads, i)
    /\ UNCHANGED <<store, files, snap, installed, fg, dialogs, status, delivered,
                   cycles, events, config,
                   appAsset>>

----------------------------------------------------------------------------
(* The system.  Each specification draws the inputs of the actions from    *)
(* sets it names: the forms typed, the instants datetime.now() returns to  *)
(* insert_record (times) and to generate_dashboard_html (gens), the        *)
(* filesystem faults and the ways a subprocess ends.                       *)

\* deploy_to_surge on thread i, one step
Worker(i, ocs) ==
    \/ ResolveSurge(i)
    \/ \E oc \in ocs : SurgeWhoami(i, oc)
    \/ \E oc \in ocs : SurgeLogin(i, oc)
    \/ \E oc \in ocs : SurgeWhoami2(i, oc)
    \/ \E oc \in ocs : SurgeDeploy(i, oc)
    \/ ResolveNpx(i)
    \/ \E oc \in ocs : NpxWhoami(i, oc)
    \/ \E oc \in ocs : NpxLogin(i, oc)
    \/ \E oc \in ocs : NpxDeploy(i, oc)
    \/ QueueDone(i)

\* the handlers and callbacks the main loop runs
Foreground(forms, times, gens, faults) ==
    \/ \E f \in forms, now \in times : SaveRecord(f, now)
    \/ \E now \in gens, fault \in faults : SaveCommit(now, fault)
    \/ SaveStart
    \/ \E now \in gens, fault \in faults : ManualGenerate(now, fault)
    \/ CopyChartJs
    \/ RunDone

Environment ==
    \/ \E n \in ToolNames, spot \in InstallSpots : InstallTool(n, spot)
    \/ \E n \in ToolNames : RemoveTool(n)

\* the instant of a run in which the clock plays no part
Noon == <<0, 0>>

\* the forms of a run in which one reading's values are typed, or bad ones
OneReading == {f \in FormInputs : f.o2 # "21,5"}

\* The application with its deployment tools coming and going: every
\* filesystem fault, every subprocess outcome; one instant, one reading.
Next ==
    \/ Foreground(OneReading, {Noon}, {Noon}, FsFaults)
    \/ \E i \in 1..Len(threads) : Worker(i, Outcomes)
    \/ Environment

Spec == Init /\ [][Next]_vars

\* The scheduling the code relies on: a subprocess call returns (each has a
\* timeout), the thread runs on, and the main loop runs queued callbacks.
FairSpec ==
    /\ Spec
    /\ WF_vars(\E i \in 1..Len(threads) : Worker(i, Outcomes))
    /\ WF_vars(RunDone)

\* The record store over time, on a machine with neither tool installed:
\* every form, every instant the wall clock can show at an insert, one
\* instant of generation, no filesystem fault.
NextStore ==
    \/ \E f \in FormInputs, now \in TimePoints : SaveRecord(f, now)
    \/ SaveCommit(Noon, "none")
    \/ SaveStart
    \/ ManualGenerate(Noon, "none")
    \/ RunDone
    \/ \E i \in 1..Len(threads) : ResolveSurge(i) \/ ResolveNpx(i) \/ QueueDone(i)

SpecStore == Init /\ [][NextStore]_vars

\* the seconds of one minute at which a dashboard is generated
Ticks == {Noon[1]} \X Secs

\* The publish directory over time, on a machine with neither tool installed:
\* one reading typed, one instant of insertion, every second of generation,
\* no filesystem fault but a copy2 that has to be redone by hand.
NextClock ==
    \/ Foreground(OneReading, {Noon}, Ticks, {"none", "copy"})
    \/ \E i \in 1..Len(threads) : ResolveSurge(i) \/ ResolveNpx(i) \/ QueueDone(i)

SpecClock == Init /\ [][NextClock]_vars

\* the installations a machine can start with: any of the two names on PATH,
\* and up to MaxFiles files <name><suffix> spread over the known directories
InstallStates ==
    {[path |-> p, files |-> f] :
        p \in SUBSET ToolNames,
        f \in {x \in SUBSET (ToolNames \X {KnownDirs[k] : k \in 1..Len(KnownDirs)}
                                       \X (1..Len(Suffixes))) :
                  Cardinality(x) <= MaxFiles}}

InitResolver ==
    /\ store = <<>>
    /\ files = [latest |-> NoFile, index |-> NoFile, archive |-> <<>>, chart |-> FALSE]
    /\ snap = [last |-> NoRow, records |-> <<>>, of |-> <<>>, mode |-> FALSE, tag |-> ""]
    /\ installed \in InstallStates
    /\ fg = "idle"
    /\ dialogs = {}
    /\ threads = <<>>
    /\ afterQ = <<>>
    /\ status = [bar |-> "", box |-> ""]
    /\ delivered = [c \in Cycles |-> 0]
    /\ cycles = 0
    /\ events = <<>>
    /\ config = [chart_offline |-> FALSE]
    /\ appAsset = FALSE

\* a form that passes validation
ValidForm == Typed("20.9", "MRossi")

\* Save cycles on a machine whose installation does not change: one reading,
\* one instant, no filesystem fault, every subprocess running into its timeout.
NextResolver ==
    \/ SaveRecord(ValidForm, Noon)
    \/ SaveCommit(Noon, "none")
    \/ SaveStart
    \/ RunDone
    \/ \E i \in 1..Len(threads) : Worker(i, {[kind |-> "timeout"]})

SpecResolver == InitResolver /\ [][NextResolver]_vars

\* the program starts on a machine with any of the two tools on PATH
InitDispatch == InitResolver /\ installed.files = {}

\* Save cycles on a machine whose installation does not change, every
\* subprocess ending in any way: one reading, one instant, no filesystem fault.
NextDispatch ==
    \/ SaveRecord(ValidForm, Noon)
    \/ SaveCommit(Noon, "none")
    \/ SaveStart
    \/ RunDone
    \/ \E i \in 1..Len(threads) : Worker(i, Outcomes)

SpecDispatch == InitDispatch /\ [][NextDispatch]_vars

\* a subprocess call returns (each has a timeout) and the thread runs on
FairDispatch ==
    /\ SpecDispatch
    /\ WF_vars(\E i \in 1..Len(threads) : Worker(i, Outcomes))

\* a row that insert_record wrote, and the same row with a text in column o2
GoodRow == InsertRecord(<<>>, Noon, ValidateForm(ValidForm))[1]
BadRow == [GoodRow EXCEPT !.o2 = Text("n/a")]

\* the databases the program can find at DB_PATH when it starts: init_db
\* creates the table only if it is missing and keeps the rows of a file that
\* is there, whoever wrote them (restore_database copies any file there)
FoundDatabases ==
    {<<>>, <<GoodRow>>, <<BadRow>>, <<GoodRow, BadRow>>, <<BadRow, GoodRow>>}

InitRender ==
    /\ store \in FoundDatabases
    /\ files = [latest |-> NoFile, index |-> NoFile, archive |-> <<>>, chart |-> FALSE]
    /\ snap = [last |-> NoRow, records |-> <<>>, of |-> <<>>, mode |-> FALSE, tag |-> ""]
    /\ installed = [path |-> {}, files |-> {}]
    /\ fg = "idle"
    /\ dialogs = {}
    /\ threads = <<>>
    /\ afterQ = <<>>
    /\ status = [bar |-> "", box |-> ""]
    /\ delivered = [c \in Cycles |-> 0]
    /\ cycles = 0
    /\ events = <<>>
    /\ config = [chart_offline |-> FALSE]
    /\ appAsset = FALSE

\* Saving and regenerating over a database that was found at start, on a
\* machine with neither tool installed: one reading, no filesystem fault.
NextRender ==
    \/ \E now \in TimePoints : SaveRecord(ValidForm, now)
    \/ SaveCommit(Noon, "none")
    \/ SaveStart
    \/ ManualGenerate(Noon, "none")
    \/ RunDone
    \/ \E i \in 1..Len(threads) : ResolveSurge(i) \/ ResolveNpx(i) \/ QueueDone(i)

SpecRender == InitRender /\ [][NextRender]_vars

\* the valid form with one numeric field left empty or holding a word, or
\* with the operator left empty or holding spaces only
FormFaults ==
    {[ValidForm EXCEPT ![n] = x] : n \in NumFields, x \in {"", "abc"}}
        \cup {[ValidForm EXCEPT !.operatore = x] : x \in {"", " "}}

\* Saving forms with one bad field, and the valid form, at any instant, on a
\* machine with neither tool installed; no filesystem fault.
NextForm ==
    \/ \E f \in FormFaults \cup {ValidForm}, now \in TimePoints : SaveRecord(f, now)
    \/ SaveCommit(Noon, "none")
    \/ SaveStart
    \/ RunDone
    \/ \E i \in 1..Len(threads) : ResolveSurge(i) \/ ResolveNpx(i) \/ QueueDone(i)

SpecForm == Init /\ [][NextForm]_vars

\* the instants at which the dashboard is generated in a run about the chart
\* library: two days, so that the footers of two documents can differ
ChartGens == Days \X {0}

\* Saving and regenerating while the preference "Usa Chart.js offline" is
\* switched, chart.umd.min.js is copied to the dashboard directory, appears
\* next to the program or goes, and the copy of line 422 succeeds or fails.
NextChart ==
    \/ SaveRecord(ValidForm, Noon)
    \/ \E now \in ChartGens, fault \in {"none", "asset"} : SaveCommit(now, fault)
    \/ SaveStart
    \/ \E now \in ChartGens, fault \in {"none", "asset"} : ManualGenerate(now, fault)
    \/ CopyChartJs
    \/ ToggleOffline
    \/ PlaceAppAsset
    \/ RunDone
    \/ \E i \in 1..Len(threads) : ResolveSurge(i) \/ ResolveNpx(i) \/ QueueDone(i)

SpecChart == Init /\ [][NextChart]_vars

----------------------------------------------------------------------------
(* Properties.                                                             *)

Range(q) == {q[k] : k \in 1..Len(q)}

\* the dispatches whose history is in the state: the live worker threads
Dispatches == Range(threads)

Returned(t) == t.pc = "return"

Deploys(t, strat) ==
    {k \in 1..Len(t.calls) : t.calls[k].strat = strat /\ t.calls[k].sub = "deploy"}

Looked(t, name) == \E k \in 1..Len(t.resolved) : t.resolved[k].name = name

Found(t, name) ==
    \E k \in 1..Len(t.resolved) : t.resolved[k].name = name /\ t.resolved[k].found

DirectFailed(t) == \E k \in Deploys(t, "surge") : t.calls[k].rc # 0

DirectOk(t) == \E k \in Deploys(t, "surge") : t.calls[k].rc = 0

RunnerUsed(t) == Looked(t, "npx") \/ \E k \in 1..Len(t.calls) : t.calls[k].strat = "npx"

\* a transcript segment that records the direct attempt
IsDirectRecord(seg) == "tag" \in DOMAIN seg /\ seg.tag = "[surge]"

\* a transcript segment that records the runner's attempt: its tagged record,
\* or the bare output of its deploy
IsRunnerRecord(seg) ==
    \/ "tag" \in DOMAIN seg /\ seg.tag = "[npx surge]"
    \/ "raw" \in DOMAIN seg /\ "of" \in DOMAIN seg.raw
          /\ seg.raw.of[1] = "npx" /\ seg.raw.of[2] = "deploy"

\* publishes started whose result has not been delivered yet
Outstanding == Len(threads) + Len(afterQ)

\* C1: single-flight.  At most one publish is outstanding (a worker thread in
\* flight, or its result queued and not yet delivered), and while save_record
\* is between its insert and the start of its worker none is outstanding: a
\* second publish never starts before the first result has been delivered.
C1_SingleFlight ==
    /\ Outstanding <= 1
    /\ (fg # "idle" => Outstanding = 0)
    /\ Cardinality(dialogs) <= 1

\* the second save cycle is uploading after the first one's result was delivered
C1_Witness ==
    /\ cycles = 2
    /\ delivered[1] = 1
    /\ Len(threads) = 1
    /\ threads[1].pc = "npx_deploy"

\* C2: dispatch fallback.  When the direct deploy failed and the runner's deploy
\* exited with zero, the dispatch returns success and its transcript holds the
\* record of the direct attempt followed by the record of the runner's attempt.
C2_FallbackTranscript ==
    \A t \in Dispatches :
        (Returned(t) /\ DirectFailed(t)
            /\ \E k \in Deploys(t, "npx") : t.calls[k].rc = 0)
        => /\ t.result.ok
           /\ \E a, b \in 1..Len(t.result.log) :
                /\ a < b
                /\ IsDirectRecord(t.result.log[a])
                /\ IsRunnerRecord(t.result.log[b])

\* C3: the runner strategy is attempted exactly when the direct tool was not
\* found or its deploy did not exit with zero; a direct deploy that exits with
\* zero ends the dispatch with no lookup and no subprocess of the runner.
C3_RunnerIffDirectFailed ==
    \A t \in Dispatches :
        /\ RunnerUsed(t) =>
              (Looked(t, "surge") /\ ~Found(t, "surge")) \/ DirectFailed(t)
        /\ ((Looked(t, "surge") /\ ~Found(t, "surge")) \/ DirectFailed(t)) =>
              (t.pc # "resolve_npx" => Looked(t, "npx"))
        /\ DirectOk(t) => (Returned(t) /\ ~RunnerUsed(t) /\ t.result.ok)

\* a dispatch that ended on the success of the direct deploy
C3_Witness ==
    \E t \in Dispatches : Returned(t) /\ DirectOk(t) /\ Len(t.resolved) = 1

\* C4: a returned dispatch reports success exactly when the last subprocess it
\* ran was a deploy that exited with zero, whatever whoami and login returned.
C4_SuccessIffDeployZero ==
    \A t \in Dispatches :
        Returned(t) =>
            (t.result.ok <=>
                /\ t.calls # <<>>
                /\ t.calls[Len(t.calls)].sub = "deploy"
                /\ t.calls[Len(t.calls)].rc = 0)

\* a dispatch that failed although it had logged in, on the runner's deploy alone
C4_Witness ==
    \E t \in Dispatches :
        /\ Returned(t)
        /\ ~t.result.ok
        /\ \E k \in 1..Len(t.calls) : t.calls[k] = [strat |-> "npx", sub |-> "login", rc |-> -1]
        /\ t.calls[Len(t.calls)] = [strat |-> "npx", sub |-> "deploy", rc |-> 1]

\* C5: when neither tool is found the dispatch fails, its transcript names both
\* strategies as not found, in order, and no subprocess was spawned.
C5_NeitherFound ==
    \A t \in Dispatches :
        (Returned(t) /\ ~Found(t, "surge") /\ ~Found(t, "npx"))
        => /\ ~t.result.ok
           /\ t.result.log = <<SurgeNotFound, NpxNotFound>>
           /\ t.calls = <<>>

\* a dispatch that returned with both lookups failed
C5_Witness ==
    \E t \in Dispatches :
        /\ Returned(t)
        /\ t.resolved = <<Lookup("surge", NoTool), Lookup("npx", NoTool)>>

\* C6: the result of every background deploy is delivered to the foreground
\* exactly once: _done never runs twice for a cycle, it eventually runs for
\* every cycle started, and when it runs it closes the cycle's dialog and
\* shows the status and verdict of the success flag it was handed.
C6_DeliveredOnce ==
    /\ [](\A c \in Cycles : delivered[c] <= 1)
    /\ \A c \in Cycles : (cycles >= c) ~> (delivered[c] = 1 /\ c \notin dialogs)
    /\ [][\A c \in Cycles :
            delivered'[c] # delivered[c] =>
                /\ afterQ # <<>>
                /\ Head(afterQ).cycle = c
                /\ c \notin dialogs'
                /\ status'.box = (IF Head(afterQ).ok THEN "ok" ELSE "warning")
                /\ status'.bar = (IF Head(afterQ).ok
                                  THEN "Dashboard pubblicata su surge.sh"
                                  ELSE "Errore pubblicazione surge.sh")]_vars
    /\ [][\A i \in 1..Len(threads) :
            (Returned(threads[i]) /\ Len(threads') < Len(threads)) =>
                /\ afterQ' # <<>>
                /\ afterQ'[Len(afterQ')].ok = threads[i].result.ok
                /\ afterQ'[Len(afterQ')].log = threads[i].result.log]_vars

\* a successful publish was delivered and its verdict is on screen
C6_Witness ==
    /\ delivered[1] = 1
    /\ dialogs = {}
    /\ status = [bar |-> "Dashboard pubblicata su surge.sh", box |-> "ok"]

\* C7: in a save cycle the reading is inserted, then dashboard_latest.html, the
\* archival copy and index.html are written, and only then the worker thread
\* is started; no subprocess of the deploy runs before the cycle's commit.
C7_CommitBeforeDeploy ==
    /\ \A k \in 1..Len(events) :
          events[k] = "thread" =>
              events = <<"insert", "latest", "ts", "index", "thread">>
    /\ threads # <<>> =>
          /\ events = <<"insert", "latest", "ts", "index", "thread">>
          /\ files.latest # NoFile
          /\ files.index = files.latest
          /\ \E n \in ArchiveNames(files) : files.archive[n] = files.latest
          /\ files.latest.last \in Rows(store)

\* a deploy subprocess has run in a cycle whose commit wrote the three files
C7_Witness ==
    /\ Len(threads) = 1
    /\ \E k \in 1..Len(threads[1].calls) : threads[1].calls[k].sub = "deploy"
    /\ events = <<"insert", "latest", "ts", "index", "thread">>
    /\ files.index = files.latest

\* C9: while a worker thread is in flight nothing writes to the publish
\* directory: no step taken with a live worker changes DASH_DIR.
C9_NoWriteInFlight == [][threads # <<>> => files' = files]_vars

\* a deploy is in flight over a directory that holds the commit and a copied chart library
C9_Witness ==
    /\ Len(threads) = 1
    /\ threads[1].pc = "surge_deploy"
    /\ files.chart
    /\ files.index # NoFile

\* C8: the document committed by a save cycle shows, as its most recent
\* reading, the reading that the cycle has just inserted.
C8_ShowsInsertedReading ==
    fg = "start" =>
        /\ snap.last = store[Len(store)]
        /\ files.latest.last = store[Len(store)]

\* C10: the snapshot built from a non-empty store holds exactly the readings
\* taken no more than 30 days (30 * 24 h, both ends included) before the
\* latest one, in ascending order of time; it is not empty and its most
\* recent reading is a reading of the store with the greatest timestamp.
C10_TrailingWindow ==
    snap.last # NoRow =>
        LET st == snap.of
            recs == snap.records
            latest == Strptime(snap.last.timestamp)
            InWindow(r) ==
                /\ latest - WINDOW_DAYS * SECS_PER_DAY <= Strptime(r.timestamp)
                /\ Strptime(r.timestamp) <= latest
        IN  /\ Range(recs) = {r \in Rows(st) : InWindow(r)}
            /\ Len(recs) = Cardinality({i \in 1..Len(st) : InWindow(st[i])})
            /\ \A i, j \in 1..Len(recs) :
                  i < j => Strptime(recs[i].timestamp) <= Strptime(recs[j].timestamp)
            /\ recs # <<>>
            /\ snap.last \in Rows(st)
            /\ \A r \in Rows(st) : Strptime(r.timestamp) <= latest
            /\ snap.last \in Range(recs)

\* a snapshot that includes a reading exactly 30 days older than the latest
\* and leaves out one that is a second older than that
C10_Witness ==
    /\ snap.last # NoRow
    /\ \E r \in Range(snap.records) :
          Strptime(snap.last.timestamp) - Strptime(r.timestamp)
              = WINDOW_DAYS * SECS_PER_DAY
    /\ \E q \in Rows(snap.of) :
          /\ Strptime(snap.last.timestamp) - Strptime(q.timestamp)
                = WINDOW_DAYS * SECS_PER_DAY + 1
          /\ q \notin Range(snap.records)

\* C11: on an empty record store aggregation fails with NoData: there is no
\* snapshot, none of dashboard_latest.html, index.html and the archival
\* copies exists, and no deploy was started, whatever handlers have run.
C11_NoDataNoCommit ==
    store = <<>> =>
        /\ Aggregate(store) = {NoData}
        /\ files.latest = NoFile
        /\ files.index = NoFile
        /\ files.archive = <<>>
        /\ snap.last = NoRow
        /\ snap.records = <<>>
        /\ threads = <<>>
        /\ afterQ = <<>>
        /\ cycles = 0

\* the dashboard was asked for on an empty store and the error was shown
C11_Witness ==
    /\ store = <<>>
    /\ status.box = "Impossibile generare la dashboard"
    /\ files.chart

\* C12: when a write or the copy of the commit fails in a save cycle, the
\* cycle ends there: the error box is shown, no dialog is opened and no worker
\* thread is started, so no tool is resolved and no subprocess is spawned;
\* until the next save there is no worker and no result to deliver.
C12_CommitFailureAborts ==
    /\ [][(fg = "commit" /\ fg' # fg /\ "index" \notin Range(events'))
            => /\ fg' = "idle"
               /\ status'.box = "Errore"
               /\ threads' = <<>>
               /\ afterQ' = <<>>
               /\ dialogs' = {}
               /\ cycles' = cycles]_vars
    /\ []((fg = "idle" /\ events # <<>> /\ "index" \notin Range(events))
            => (threads = <<>> /\ afterQ = <<>> /\ dialogs = {}))

\* a save cycle whose archival copy could not be written, after an earlier
\* cycle that published
C12_Witness ==
    /\ fg = "idle"
    /\ events = <<"insert", "latest">>
    /\ status.box = "Errore"
    /\ cycles = 1
    /\ threads = <<>>

\* C13: a commit that is reported as successful (save_record goes on to the
\* upload, or manual_generate_dashboard shows "Dashboard rigenerata") has left
\* dashboard_latest.html, an archival copy and index.html with the same
\* content; a commit that left them otherwise was reported as failed.
C13_CommitAtomic ==
    (fg = "start" \/ status.box = "Dashboard") =>
        /\ files.latest # NoFile
        /\ files.index = files.latest
        /\ \E n \in ArchiveNames(files) : files.archive[n] = files.latest

\* a regeneration was reported as done after a save cycle whose copy to
\* index.html had failed
C13_Witness ==
    /\ status.box = "Dashboard"
    /\ events = <<"insert", "latest", "ts">>
    /\ files.index = files.latest
    /\ files.latest # NoFile

\* C14: commit is idempotent.  A commit of the document that the previous
\* commit left in dashboard_latest.html and index.html (a step that writes an
\* archival copy and leaves the content of the stable file as it was) leaves
\* index.html with the same content too, and the one file it adds or rewrites
\* is an archival copy that holds that same document: the archival copies of
\* the two commits differ by name only.
C14_CommitIdempotent ==
    [][( /\ files.latest # NoFile
         /\ files.index = files.latest
         /\ files'.latest = files.latest
         /\ files'.archive # files.archive )
       => /\ files'.index = files.index
          /\ files'.chart = files.chart
          /\ \E n \in ArchiveNames(files') :
                /\ ArchiveNames(files') = ArchiveNames(files) \cup {n}
                /\ files'.archive[n] = files.latest
                /\ \A m \in ArchiveNames(files) \ {n} :
                      files'.archive[m] = files.archive[m]
          /\ \E m \in ArchiveNames(files) : files.archive[m] = files.latest]_vars

\* the same document was committed at two different seconds: two archival
\* copies under different names hold what the stable file and index.html hold
C14_Witness ==
    /\ status.box = "Dashboard"
    /\ files.latest # NoFile
    /\ files.index = files.latest
    /\ \E n1, n2 \in ArchiveNames(files) :
          /\ n1 # n2
          /\ files.archive[n1] = files.latest
          /\ files.archive[n2] = files.latest

\* C15: every successful commit produces its own archival copy: the publish
\* directory holds at least as many dashboard_<timestamp>.html files as save
\* cycles have committed, and no step rewrites or removes an archival copy
\* that an earlier commit wrote.
C15_OwnArchivalCopy ==
    /\ [](Cardinality(ArchiveNames(files)) >= cycles)
    /\ [][\A n \in ArchiveNames(files) :
            /\ n \in ArchiveNames(files')
            /\ files'.archive[n] = files.archive[n]]_vars

\* the lists of candidate names and the orderings of the known directories
NameLists == {<<"surge">>, <<"npx">>, <<"surge", "npx">>, <<"npx", "surge">>}

DirLists ==
    {d \in [1..Len(KnownDirs) -> Range(KnownDirs)] :
        \A a, b \in 1..Len(KnownDirs) : a # b => d[a] # d[b]}

\* C16: _which_executable returns the first match in a fixed order.  The first
\* of the names that is on PATH wins over every file of a known directory;
\* with no name on PATH, the result is the first existing file in the order
\* name, then known directory, then suffix; the result is None exactly when
\* no name is on PATH and no known directory holds a file of any name.
C16_FirstMatch ==
    \A names \in NameLists, dirs \in DirLists :
        LET r == WhichExecutable(names, dirs, installed)
            I == 1..Len(names)
            D == 1..Len(dirs)
            U == 1..Len(Suffixes)
            OnPath(i) == names[i] \in installed.path
            IsFile(i, d, u) == <<names[i], dirs[d], u>> \in installed.files
            Earlier(j, e, v, i, d, u) ==
                \/ j < i
                \/ j = i /\ e < d
                \/ j = i /\ e = d /\ v < u
            NonePath == \A i \in I : ~OnPath(i)
            NoneFile == \A i \in I, d \in D, u \in U : ~IsFile(i, d, u)
        IN  /\ ~NonePath =>
                \E i \in I :
                    /\ OnPath(i)
                    /\ \A j \in 1..(i - 1) : ~OnPath(j)
                    /\ r = [found |-> TRUE, via |-> "path", name |-> names[i]]
            /\ (NonePath /\ ~NoneFile) =>
                \E i \in I, d \in D, u \in U :
                    /\ IsFile(i, d, u)
                    /\ \A j \in I, e \in D, v \in U :
                          Earlier(j, e, v, i, d, u) => ~IsFile(j, e, v)
                    /\ r = [found |-> TRUE, via |-> "dir", name |-> names[i],
                            dir |-> dirs[d], suf |-> u]
            /\ (r = NoTool) <=> (NonePath /\ NoneFile)

\* a dispatch resolved surge to surge.cmd of the first known directory while
\* the second one holds a file surge without suffix
C16_Witness ==
    /\ installed = [path |-> {"npx"},
                    files |-> {<<"surge", KnownDirs[1], 2>>, <<"surge", KnownDirs[2], 1>>}]
    /\ \E t \in Dispatches :
          /\ t.resolved = <<Lookup("surge", t.cmd)>>
          /\ t.cmd = [found |-> TRUE, via |-> "dir", name |-> "surge",
                      dir |-> KnownDirs[1], suf |-> 2]

\* C17: when none of the names is on PATH and exactly one known directory holds
\* a matching file, _which_executable returns the same path, one of that
\* directory, for every ordering of the list of known directories.
C17_DirOrderIrrelevant ==
    \A names \in NameLists :
        LET Holding == {d \in Range(KnownDirs) :
                           \E i \in 1..Len(names), u \in 1..Len(Suffixes) :
                               <<names[i], d, u>> \in installed.files}
        IN  ( /\ \A i \in 1..Len(names) : names[i] \notin installed.path
              /\ Cardinality(Holding) = 1 )
            => \A d1, d2 \in DirLists :
                  /\ WhichExecutable(names, d1, installed)
                        = WhichExecutable(names, d2, installed)
                  /\ WhichExecutable(names, d1, installed).found
                  /\ WhichExecutable(names, d1, installed).dir \in Holding

\* a dispatch resolved surge in the second known directory, the only one that
\* holds it, where two suffixes of it exist
C17_Witness ==
    /\ installed = [path |-> {},
                    files |-> {<<"surge", KnownDirs[2], 2>>, <<"surge", KnownDirs[2], 3>>}]
    /\ \E t \in Dispatches :
          /\ Len(t.resolved) = 1
          /\ t.cmd = [found |-> TRUE, via |-> "dir", name |-> "surge",
                      dir |-> KnownDirs[2], suf |-> 2]

\* the tag a transcript segment of a strategy carries
StrategyTag(strat) == IF strat = "surge" THEN "[surge]" ELSE "[npx surge]"

\* segment seg of a transcript holds the output of the k-th subprocess c of
\* the dispatch (what the child printed, or the text reported on a timeout)
\* under the tag of the strategy that ran it
Carries(seg, c, k) ==
    /\ "tag" \in DOMAIN seg
    /\ "out" \in DOMAIN seg
    /\ seg.tag = StrategyTag(c.strat)
    /\ seg.out \in {[of |-> <<c.strat, c.sub, k>>], TimeoutOut}

\* C18: the transcript a dispatch returns holds the output of every
\* subprocess the dispatch ran (whoami, login and deploy of every strategy
\* attempted), in the order they ran, each under the tag of its strategy.
C18_TranscriptComplete ==
    \A t \in Dispatches :
        Returned(t) =>
            \E pos \in [1..Len(t.calls) -> 1..Len(t.result.log)] :
                /\ \A k \in 1..Len(t.calls) : Carries(t.result.log[pos[k]], t.calls[k], k)
                /\ \A j, k \in 1..Len(t.calls) : j < k => pos[j] <= pos[k]

\* the subprocess calls a dispatch can make
CallNames == {"surge", "npx"} \X {"whoami", "login", "deploy"} \X (1..7)

\* C19: a subprocess that runs into its timeout is reported as (1, "Timeout
\* esecuzione comando."): a non-zero status, never the output of a successful
\* deploy; when it is the direct deploy that timed out, the direct strategy is
\* recorded as failed with that text and the dispatch goes on to look for npx.
C19_TimeoutIsFailure ==
    /\ \A call \in CallNames :
          LET r == RunSubprocess(call, [kind |-> "timeout"])
          IN  r.rc # 0 /\ r.out = TimeoutOut /\ ~SurgeAuthenticated(r) /\ NpxNeedsLogin(r)
    /\ \A t \in Dispatches :
          /\ \A seg \in Range(t.last) \cup Range(t.result.log) :
                /\ "raw" \in DOMAIN seg => seg.raw # TimeoutOut
                /\ ("out" \in DOMAIN seg /\ seg.out = TimeoutOut) => seg.rc # 0
          /\ (\E seg \in Range(t.last) :
                  IsDirectRecord(seg) /\ "out" \in DOMAIN seg /\ seg.out = TimeoutOut)
             => /\ DirectFailed(t)
                /\ ~DirectOk(t)
                /\ t.pc = "resolve_npx" \/ Looked(t, "npx")
                /\ Returned(t) /\ Found(t, "npx") => Deploys(t, "npx") # {}

\* the direct deploy timed out and the runner's deploy is about to run
C19_Witness ==
    \E t \in Dispatches :
        /\ t.last = <<Attempt("[surge]", 1, TimeoutOut)>>
        /\ t.pc = "npx_deploy"

\* the worker is past the direct strategy
PastDirect(t) ==
    t.pc \in {"resolve_npx", "npx_whoami", "npx_login", "npx_deploy", "return"}

\* C20: authentication uncertainty is not fatal.  In each strategy whose tool
\* was resolved the deploy subcommand runs exactly once, after the status
\* check and the login, whatever these returned: never twice, and once the
\* strategy is over it has run, also when every whoami and login failed.
C20_DeployRegardless ==
    \A t \in Dispatches :
        /\ Cardinality(Deploys(t, "surge")) <= 1
        /\ Cardinality(Deploys(t, "npx")) <= 1
        /\ (Found(t, "surge") /\ PastDirect(t)) => Cardinality(Deploys(t, "surge")) = 1
        /\ (Found(t, "npx") /\ Returned(t)) => Cardinality(Deploys(t, "npx")) = 1
        /\ \A k \in Deploys(t, "surge") \cup Deploys(t, "npx") :
              /\ k > 1
              /\ t.calls[k - 1].strat = t.calls[k].strat
              /\ t.calls[k - 1].sub \in {"whoami", "login"}
              /\ \A j \in (k + 1)..Len(t.calls) : t.calls[j].strat # t.calls[k].strat

\* the direct deploy ran although login and both status checks had failed,
\* and the runner's deploy ran after its login
C20_Witness ==
    \E t \in Dispatches :
        /\ Returned(t)
        /\ ~t.ok_login
        /\ Len(t.calls) = 7
        /\ t.calls[4].sub = "deploy"
        /\ t.calls[6].sub = "login"
        /\ t.calls[7].sub = "deploy"

\* C21: rendering never aborts on malformed data.  With a reading in the
\* store the dashboard is always generated (no error box, in a run without
\* filesystem faults), and a numeric field that holds no number is shown in
\* the table of the document in its raw textual form.
C21_RenderNeverAborts ==
    /\ status.box = "Impossibile generare la dashboard" => store = <<>>
    /\ status.box # "Errore"
    /\ status.box = "Dashboard" =>
          /\ files.latest # NoFile
          /\ \A k \in 1..Len(files.latest.records), f \in NumFields :
                ~IsReal(files.latest.records[k][f]) =>
                    Table(files.latest)[k][f] = [raw |-> files.latest.records[k][f].text]

\* the document without the generation stamp of its footer
SansStamp(doc) == [last |-> doc.last, records |-> doc.records, chart |-> doc.chart]

\* the latest document was rendered again from the same snapshot in the same mode
SameInputs ==
    /\ files.latest # NoFile
    /\ files'.latest # NoFile
    /\ files'.latest.last = files.latest.last
    /\ files'.latest.records = files.latest.records
    /\ snap'.mode = snap.mode

\* C22: two renders of an identical snapshot in an identical resource mode
\* (use_offline) give the same document but for the generation stamp,
\* whether or not the chart-library asset is in the publish or install
\* directory.
C22_RenderDeterministic ==
    [][SameInputs => SansStamp(files'.latest) = SansStamp(files.latest)]_vars

\* C22, amended: two renders of an identical snapshot in remote mode, or in
\* offline mode with the same outcome of the chart-library selection, give the
\* same document but for the generation stamp; in remote mode the document
\* references the external URL whatever the directories hold.
C22_DeterministicGivenSelection ==
    [][/\ SameInputs /\ (~snap.mode \/ snap'.tag = snap.tag)
           => SansStamp(files'.latest) = SansStamp(files.latest)
       /\ files'.latest # NoFile /\ ~snap'.mode => files'.latest.chart = RemoteTag]_vars

\* two documents of the same snapshot rendered on different days in remote
\* mode, the later one with the asset in both directories
C22_Witness ==
    /\ ~snap.mode
    /\ files.chart
    /\ appAsset
    /\ files.latest # NoFile
    /\ \E n \in DOMAIN files.archive :
          /\ files.archive[n].gen # files.latest.gen
          /\ SansStamp(files.archive[n]) = SansStamp(files.latest)

\* C26: a step that writes the document in offline mode references the local
\* asset iff the asset was in the publish directory, or was in the install
\* directory and has been copied into the publish directory; otherwise, and
\* always in remote mode, it references the external URL; when the local
\* asset is referenced, chart.umd.min.js is in the publish directory.
C26_ChartSelection ==
    [][files'.latest # files.latest =>
          LET local == files'.latest.chart = LocalTag
          IN  /\ local <=> /\ config.chart_offline
                           /\ files.chart \/ (appAsset /\ files'.chart)
              /\ ~local => files'.latest.chart = RemoteTag
              /\ local => files'.chart]_vars

\* a document referencing the local asset, which the render copied from the
\* install directory, and one that fell back to the URL in offline mode
C26_Witness ==
    /\ config.chart_offline
    /\ appAsset
    /\ files.chart
    /\ files.latest # NoFile
    /\ files.latest.chart = LocalTag
    /\ \E n \in DOMAIN files.archive : files.archive[n].chart = RemoteTag

\* the lookups of a tool name among those of a dispatch
Lookups(t, name) == {k \in 1..Len(t.resolved) : t.resolved[k].name = name}

\* C23: no automatic retry.  A dispatch runs the deploy of each strategy at
\* most once and looks each tool up at most once; a cycle has at most one
\* dispatch, and none once its result has been delivered; a dispatch starts
\* only in the save handler, for a new cycle.  So after a failed result has
\* been delivered nothing is resolved or spawned until the next save.
C23_NoRetry ==
    /\ [](/\ \A t \in Dispatches :
                /\ \A strat \in {"surge", "npx"} : Cardinality(Deploys(t, strat)) <= 1
                /\ \A name \in {"surge", "npx"} : Cardinality(Lookups(t, name)) <= 1
                /\ t.cycle \in 1..cycles
                /\ delivered[t.cycle] = 0
          /\ \A i, j \in 1..Len(threads) : threads[i].cycle = threads[j].cycle => i = j
          /\ status.box = "warning" /\ Outstanding = 0 => threads = <<>>)
    /\ [][Len(threads') > Len(threads)
             => /\ fg = "start"
                /\ cycles' = cycles + 1
                /\ threads' = Append(threads, NewThread(cycles'))]_vars

\* a failed result has been delivered and nothing is running
C23_Witness ==
    /\ status.box = "warning"
    /\ cycles = 1
    /\ delivered[1] = 1
    /\ threads = <<>>
    /\ afterQ = <<>>
    /\ fg = "idle"

\* the subcommands a strategy has run in a dispatch, in order
Subs(t, strat) ==
    LET own == SelectSeq(t.calls, LAMBDA c : c.strat = strat)
    IN  [k \in 1..Len(own) |-> own[k].sub]

IsPrefix(a, b) == Len(a) <= Len(b) /\ SubSeq(b, 1, Len(a)) = a

\* a status response that shows an authenticated session: whoami exited
\* with 0 and printed one of the words looked for
ShowsSession(who) == who.rc = 0 /\ who.text \in {"auth", "notlogged"}

C25_RunnerSameSequence ==
    \A t \in Dispatches :
        LET n == Subs(t, "npx")
        IN  /\ t.pc = "npx_login" => ~SurgeAuthenticated(t.who)
            /\ t.pc = "npx_deploy" /\ n = <<"whoami">> => SurgeAuthenticated(t.who)
            /\ t.pc = "npx_deploy" /\ n # <<"whoami">> => n = <<"whoami", "login", "whoami">>

\* a file of that name is on PATH or in a known directory
IsInstalled(n) == n \in installed.path \/ \E x \in installed.files : x[1] = n

\* C27: tool locations are computed afresh by every dispatch.  Each lookup
\* of a dispatch answers from the installation as it is when the lookup is
\* made: found iff the tool is installed at that moment, whatever an earlier
\* lookup or an earlier dispatch found.
C27_ResolvedAfresh ==
    [][\A i \in 1..Len(threads) :
          (/\ Len(threads') = Len(threads)
           /\ Len(threads'[i].resolved) = Len(threads[i].resolved) + 1)
          => LET l == threads'[i].resolved[Len(threads'[i].resolved)]
             IN  /\ l.found = IsInstalled(l.name)
                 /\ threads'[i].cmd.found = l.found]_vars

\* the second dispatch found surge, which was not installed when the program
\* started, and did not find npx
C27_Witness ==
    \E t \in Dispatches :
        /\ t.cycle = 2
        /\ Found(t, "surge")
        /\ Looked(t, "npx")
        /\ ~Found(t, "npx")

\* C28: every dispatch terminates with a (success, transcript) result.  Its
\* subprocesses run one after another, at most whoami, login, whoami, deploy
\* of the direct tool and whoami, login, deploy of the runner, seven in all;
\* each of them returns, by itself or on its timeout, and the dispatch
\* reaches its return with a success flag and a transcript that is not empty.
C28_DispatchTerminates ==
    /\ [](\A t \in Dispatches :
             /\ Len(t.calls) <= 7
             /\ \/ IsPrefix(Subs(t, "surge"), <<"whoami", "deploy">>)
                \/ IsPrefix(Subs(t, "surge"), <<"whoami", "login", "whoami", "deploy">>)
             /\ \/ IsPrefix(Subs(t, "npx"), <<"whoami", "deploy">>)
                \/ IsPrefix(Subs(t, "npx"), <<"whoami", "login", "deploy">>)
             /\ Returned(t) => t.result.ok \in BOOLEAN /\ t.result.log # <<>>)
    /\ [][\A i \in 1..Len(threads) :
             Len(threads') = Len(threads) =>
                 \/ threads'[i].calls = threads[i].calls
                 \/ /\ Len(threads'[i].calls) = Len(threads[i].calls) + 1
                    /\ SubSeq(threads'[i].calls, 1, Len(threads[i].calls)) = threads[i].calls
                    /\ \A j \in 1..Len(threads) : j # i => threads'[j] = threads[j]]_vars
    /\ \A c \in Cycles :
          (\E t \in Dispatches : t.cycle = c)
              ~> (\E t \in Dispatches : t.cycle = c /\ Returned(t))

\* a dispatch that returned after seven subprocesses, the last one a deploy
\* that ran into its timeout
C28_Witness ==
    \E t \in Dispatches :
        /\ Returned(t)
        /\ Len(t.calls) = 7
        /\ ~t.result.ok
        /\ \E seg \in Range(t.result.log) : "out" \in DOMAIN seg /\ seg.out = TimeoutOut

\* C29: a save whose validation fails (one of the five numeric fields empty
\* or not a number, or the operator empty after trimming) shows the
\* validation error and does nothing else: no reading is inserted, no file is
\* written, no progress dialog is shown, no deploy is started.  So every row
\* of the store has an operator that is not empty.
C29_ValidationFailureNoEffect ==
    /\ [](\A k \in 1..Len(store) : store[k].operatore \notin {"", " "})
    /\ [][\A f \in FormFaults, now \in TimePoints :
             SaveRecord(f, now) =>
                 /\ status'.box = "Errore di validazione"
                 /\ UNCHANGED <<store, files, snap, dialogs, threads, afterQ,
                                delivered, cycles, fg>>]_vars

\* a validation error on screen after a completed save cycle, whose reading
\* and files are all there is
C29_Witness ==
    /\ status.box = "Errore di validazione"
    /\ Len(store) = 1
    /\ cycles = 1
    /\ delivered[1] = 1
    /\ Cardinality(DOMAIN files.archive) = 1
    /\ threads = <<>>
    /\ dialogs = {}

\* a step of the manual regeneration: its message box appears, or the files
\* change under it
ManualStep ==
    /\ status'.box \in {"Dashboard", "Impossibile generare la dashboard"}
    /\ status' # status \/ files' # files \/ snap' # snap

\* C30: the manual regeneration only renders and commits the local files.  It
\* inserts no reading, resolves no tool, runs no subprocess, starts no deploy
\* and shows no progress dialog; when it succeeds dashboard_latest.html and
\* index.html hold the document it rendered.
C30_ManualOnlyCommits ==
    [][ManualStep =>
          /\ UNCHANGED <<store, installed, fg, dialogs, threads, afterQ, delivered,
                         cycles, events>>
          /\ status'.box = "Dashboard" =>
                /\ files'.latest # NoFile
                /\ files'.index = files'.latest]_vars

\* a regenerated dashboard of two readings after the only deploy, which
\* published a dashboard of one
C30_Witness ==
    /\ status.box = "Dashboard"
    /\ cycles = 1
    /\ delivered[1] = 1
    /\ threads = <<>>
    /\ Len(store) = 2
    /\ files.latest # NoFile
    /\ Len(files.latest.records) = 2

====
